---- MODULE Spec2Model ----
(***************************************************************************)
(* A model of the MMU simulation of src/main.c: the Physical and Virtual   *)
(* Memory Maps, the per-process two-level page tables, the first-fit frame *)
(* allocator, memory-request arbitration, translation and deallocation.    *)
(*                                                                         *)
(* A slot of physical_memory holds a struct PCB by value and a slot of     *)
(* virtual_memory a struct page; the program only ever reads the id of the *)
(* stored process back (main.c:307, 431, 452, 533, 587, 606), so a slot is *)
(* modelled by that id, -1 meaning empty.  virtual_memory[i][j].page_number*)
(* is set to i once (main.c:394) and never changed.                        *)
(*                                                                         *)
(* The three big arrays are kept sparsely: a map holds the slots that have *)
(* an owner (every other slot reads -1, the value the initialisers write), *)
(* a page table holds the entries that differ from the (-1, 0) that        *)
(* initialize_process_page_tables writes.  The accessors below read and    *)
(* write them by index, as the array expressions of the program do.        *)
(***************************************************************************)
EXTENDS Integers, Sequences, FiniteSets, TLC

\* ------------------------------------------------------------ constants
MAX_PROCESS_COUNT == 8
MIN_PROCESS_SIZE == 16
MAX_PROCESS_SIZE == 64
FRAME_SIZE == 16
PHYSICAL_MEMORY_SIZE == FRAME_SIZE * 64
NO_OF_FRAMES == PHYSICAL_MEMORY_SIZE \div FRAME_SIZE
PAGE_SIZE == FRAME_SIZE
VIRTUAL_MEMORY_SIZE == 4096
NO_OF_PAGES == VIRTUAL_MEMORY_SIZE \div PAGE_SIZE
PAGE_TABLE_ENTRY_SIZE == 4
NO_OF_PAGE_TABLE_ENTRIES_IN_PAGE == PAGE_SIZE \div PAGE_TABLE_ENTRY_SIZE
OUTER_PAGE_TABLE_SIZE == NO_OF_PAGES \div NO_OF_PAGE_TABLE_ENTRIES_IN_PAGE

\* --------------------------------------------------------------- bounds
\* The number of processes the caller creates (num_of_processes, read by
\* main at line 149).
NumProcesses == 2
\* The number of calls (admissions, translations, deallocations) the caller
\* makes in one run.
MaxCalls == 5

\* The inputs the generators may produce, sampled.
\* generate_random_process_size: MIN_PROCESS_SIZE..MAX_PROCESS_SIZE.
ProcessSizes == {31, MAX_PROCESS_SIZE}
\* generate_random_request_size(process_size): 1..process_size.
RequestSizes(process_size) ==
    {r \in {1, 17, 33, MAX_PROCESS_SIZE - 1, MAX_PROCESS_SIZE} : r <= process_size}
\* generate_random_logical_address: 0..VIRTUAL_MEMORY_SIZE-1.  The first
\* address of page 0 and an address of page 1 with another offset.
Addresses == {0, PAGE_SIZE + 5}

Frames == 0 .. NO_OF_FRAMES - 1
Pages == 0 .. NO_OF_PAGES - 1
Slots == 0 .. FRAME_SIZE - 1
ProcessIds == 0 .. NumProcesses - 1

\* (int)ceil((double)a / b) for a >= 0, b > 0 (main.c:225, 297).
CeilDiv(a, b) == (a + b - 1) \div b

\* ------------------------------------------------------------ the state
VARIABLES
    physical_memory,            \* [frame][byte-slot] -> owning process id or -1
    virtual_memory,             \* [page][byte-slot]  -> owning process id or -1
    physical_memory_remaining,  \* the capacity counter
    no_of_page_faults,          \* the fault counter
    process,                    \* process id -> the PCB the caller holds (id -1: none yet)
    calls,                      \* the number of calls made so far
    deallocated,                \* ids passed to memory_deallocation (terminated)
    out_of_bounds,              \* an array was indexed outside its bounds
    last,                       \* the last call: operation, arguments, results
    master_outer_page_table,    \* index -> the PCB allocated by create_process
    main                        \* main's position, loop index and num_of_processes

vars == <<physical_memory, virtual_memory, physical_memory_remaining,
          no_of_page_faults, process, calls, deallocated,
          out_of_bounds, last, master_outer_page_table, main>>

\* ------------------------------------------------------ the arrays
\* m[i][j] of a memory map: the owner recorded in slot j of row i.
Slot(m, i, j) == IF <<i, j>> \in DOMAIN m THEN m[<<i, j>>] ELSE -1

\* The map m after m[i][j] = id for every <<i, j>> of the set cells.
WriteSlots(m, cells, id) ==
    [c \in DOMAIN m \cup cells |-> IF c \in cells THEN id ELSE m[c]]

\* The map m after m[i][j] = -1 for every slot of the rows in the set rows.
ClearRows(m, rows) == [c \in {d \in DOMAIN m : d[1] \notin rows} |-> m[c]]

\* The map in which no slot has an owner.
EmptyMap == [c \in {} |-> -1]

\* The page-table entry that initialize_process_page_tables writes.
UnmappedEntry == [frame_number |-> -1, valid |-> 0]

\* inner_page_tables[i][j] of a descriptor.
Entry(p, i, j) ==
    IF <<i, j>> \in DOMAIN p.inner_page_tables
    THEN p.inner_page_tables[<<i, j>>]
    ELSE UnmappedEntry

\* The descriptor after inner_page_tables[i][j] = e.
WriteEntry(p, i, j, e) ==
    [p EXCEPT !.inner_page_tables =
        IF e = UnmappedEntry
        THEN [c \in DOMAIN @ \ {<<i, j>>} |-> @[c]]
        ELSE [c \in DOMAIN @ \cup {<<i, j>>} |-> IF c = <<i, j>> THEN e ELSE @[c]]]

\* ------------------------------------------------- process descriptors
\* initialize_process_page_tables: every entry (frame_number -1, valid 0).
initialize_process_page_tables(p) ==
    [p EXCEPT !.inner_page_tables = [c \in {} |-> UnmappedEntry]]

\* The descriptor of a process that does not exist (failed_process, id -1).
NoProcess ==
    initialize_process_page_tables(
        [id |-> -1, size |-> 0, size_in_memory |-> 0, inner_page_tables |-> <<>>])

\* The element count create_process computes,
\* sizeof(master_outer_page_table) / sizeof(master_outer_page_table[0]): the
\* declared length of the array, whatever it holds.
no_of_processes == MAX_PROCESS_COUNT

\* The test that makes create_process return failed_process.
CapacityExceeded == no_of_processes > MAX_PROCESS_COUNT

\* create_process followed by initialize_process_page_tables, as main does
\* for each process: the id is the process number, the size is the one
\* generated, nothing is in memory yet.
create_process(process_number, process_size) ==
    IF CapacityExceeded
    THEN NoProcess
    ELSE initialize_process_page_tables(
             [id |-> process_number, size |-> process_size, size_in_memory |-> 0,
              inner_page_tables |-> <<>>])

\* The PCB that create_process allocates and fills in: id, size and
\* size_in_memory; its inner_page_tables are not initialised.
heap_PCB(process_number, process_size) ==
    [id |-> process_number, size |-> process_size, size_in_memory |-> 0]

\* master_outer_page_table after create_process(process_number): the
\* element process_number points to the new PCB.  The table is kept
\* sparsely, an index that was never written holds no PCB.
create_process_table(table, process_number, process_size) ==
    IF CapacityExceeded
    THEN table
    ELSE [n \in DOMAIN table \cup {process_number} |->
             IF n = process_number THEN heap_PCB(process_number, process_size)
             ELSE table[n]]

\* ---------------------------------------------------------- first fit
\* Faulty variant: the byte_counter loop looks at the first slot only.
FrameIsFree_first_slot(pm, i) == Slot(pm, i, 0) = -1

\* The byte_counter loop: a frame is free when no slot of it has an owner.
FrameIsFree(pm, i) == \A b \in Slots : Slot(pm, i, b) = -1

\* Faulty variant: an owned frame does not reset start_frame and frame_counter, so
\* the scan counts free frames across a gap.
RECURSIVE first_fit_scan_no_reset(_, _, _, _, _)
first_fit_scan_no_reset(pm, required_no_of_frames, i, start_frame, frame_counter) ==
    IF i >= NO_OF_FRAMES
    THEN [start_frame |-> start_frame, frame_counter |-> frame_counter]
    ELSE IF ~FrameIsFree(pm, i)
    THEN first_fit_scan_no_reset(pm, required_no_of_frames, i + 1,
                                 start_frame, frame_counter)
    ELSE IF frame_counter + 1 = required_no_of_frames
         THEN [start_frame |-> IF start_frame = -1 THEN i ELSE start_frame,
               frame_counter |-> frame_counter + 1]
         ELSE first_fit_scan_no_reset(pm, required_no_of_frames, i + 1,
                                      IF start_frame = -1 THEN i ELSE start_frame,
                                      frame_counter + 1)

\* Faulty variant: when no run of free frames exists the scan reports frame
\* 0 as the start of one.
first_fit_scan_overcommit(pm, required_no_of_frames, i, start_frame, frame_counter) ==
    LET starts == {s \in Frames :
                      \A f \in s .. s + required_no_of_frames - 1 :
                          f \in Frames /\ FrameIsFree(pm, f)}
    IN  [start_frame |-> IF starts = {} THEN 0
                         ELSE CHOOSE s \in starts : \A t \in starts : s <= t,
         frame_counter |-> required_no_of_frames]

\* The scan loop from frame i on, with the loop's two locals: the result is
\* their values when the loop ends (by the break or at NO_OF_FRAMES).
RECURSIVE first_fit_scan(_, _, _, _, _)
first_fit_scan(pm, required_no_of_frames, i, start_frame, frame_counter) ==
    IF i >= NO_OF_FRAMES
    THEN [start_frame |-> start_frame, frame_counter |-> frame_counter]
    ELSE IF ~FrameIsFree(pm, i)
    THEN \* an owned slot: the run is abandoned
         IF 0 = required_no_of_frames
         THEN [start_frame |-> -1, frame_counter |-> 0]
         ELSE first_fit_scan(pm, required_no_of_frames, i + 1, -1, 0)
    ELSE \* a free frame: it starts or extends the run
         IF frame_counter + 1 = required_no_of_frames
         THEN [start_frame |-> IF start_frame = -1 THEN i ELSE start_frame,
               frame_counter |-> frame_counter + 1]
         ELSE first_fit_scan(pm, required_no_of_frames, i + 1,
                             IF start_frame = -1 THEN i ELSE start_frame,
                             frame_counter + 1)

\* The marking loop: physical_memory[i][offset] = *process for each frame of
\* the run (the inner j loop writes the same slot FRAME_SIZE times).
first_fit_mark(pm, start_frame, required_no_of_frames, id, offset) ==
    WriteSlots(pm,
               {<<i, offset>> : i \in start_frame .. start_frame + required_no_of_frames - 1},
               id)

\* What first_fit subtracts from the capacity counter on success.
first_fit_charge(p) == p.size

\* first_fit(process, offset): the new map, the new counter, the result.
first_fit(pm, remaining, p, offset) ==
    LET required_no_of_frames == CeilDiv(p.size_in_memory, FRAME_SIZE)
        scan == first_fit_scan(pm, required_no_of_frames, 0, -1, 0)
    IN  IF scan.frame_counter = required_no_of_frames
        THEN [physical_memory |->
                  first_fit_mark(pm, scan.start_frame, required_no_of_frames, p.id, offset),
              physical_memory_remaining |-> remaining - first_fit_charge(p),
              ret |-> scan.start_frame]
        ELSE [physical_memory |-> pm,
              physical_memory_remaining |-> remaining,
              ret |-> -1]

\* ------------------------------------------------------- page tables
\* Faulty variant: the page number is divided by the page size.
inner_page_table_no_by_page_size(page_number) == page_number \div PAGE_SIZE

inner_page_table_no(page_number) == page_number \div NO_OF_PAGE_TABLE_ENTRIES_IN_PAGE
inner_page_table_offset(page_number) == page_number % NO_OF_PAGE_TABLE_ENTRIES_IN_PAGE

\* The entry of a process for a page number.
EntryOf(p, page_number) ==
    Entry(p, inner_page_table_no(page_number), inner_page_table_offset(page_number))

\* Faulty variant: the entry that follows in the inner page table is
\* written too.
update_page_table_two_entries(p, logical_address, frame_number) ==
    LET page_number == logical_address \div PAGE_SIZE
        e == [frame_number |-> frame_number, valid |-> 1]
    IN  WriteEntry(WriteEntry(p, inner_page_table_no(page_number),
                              inner_page_table_offset(page_number), e),
                   inner_page_table_no(page_number),
                   (inner_page_table_offset(page_number) + 1)
                       % NO_OF_PAGE_TABLE_ENTRIES_IN_PAGE, e)

\* update_page_table(process, logical_address, frame_number).
update_page_table(p, logical_address, frame_number) ==
    LET page_number == logical_address \div PAGE_SIZE
    IN  WriteEntry(p, inner_page_table_no(page_number),
                   inner_page_table_offset(page_number),
                   [frame_number |-> frame_number, valid |-> 1])

\* ------------------------------------------------------- translation
\* The page-marking loop: virtual_memory[i][offset].process = *process for
\* each page of the run.  A page index at or past NO_OF_PAGES is outside the
\* array: nothing of the map is written for it.
translation_mark(vm, page_number, required_no_of_pages, id, offset) ==
    WriteSlots(vm,
               {<<i, offset>> : i \in (page_number .. page_number + required_no_of_pages - 1)
                                       \cap Pages},
               id)

\* Whether translation takes the page-fault branch for an entry.
IsPageFault(pte) == pte.frame_number = -1

\* What the fault branch does with first_fit's result: update_page_table is
\* called with it whatever it is.
translation_commit(p, logical_address, frame_number) ==
    update_page_table(p, logical_address, frame_number)

\* hierarchical_translation(logical_address, process) in state g: the new
\* globals, the new descriptor, whether it faulted and first_fit's result.
hierarchical_translation(g, logical_address, p) ==
    LET page_number == logical_address \div PAGE_SIZE
        offset == logical_address % PAGE_SIZE
        required_no_of_pages == CeilDiv(p.size_in_memory, PAGE_SIZE)
        vm1 == translation_mark(g.virtual_memory, page_number, required_no_of_pages,
                                p.id, offset)
        oob1 == g.out_of_bounds \/ page_number + required_no_of_pages > NO_OF_PAGES
        pte == EntryOf(p, page_number)
    IN  IF IsPageFault(pte)
        THEN LET ff == first_fit(g.physical_memory, g.physical_memory_remaining, p, offset)
             IN  [physical_memory |-> ff.physical_memory,
                  virtual_memory |-> vm1,
                  physical_memory_remaining |-> ff.physical_memory_remaining,
                  no_of_page_faults |-> g.no_of_page_faults + 1,
                  out_of_bounds |-> oob1,
                  process |-> translation_commit(p, logical_address, ff.ret),
                  fault |-> TRUE,
                  frame_number |-> ff.ret]
        ELSE [physical_memory |-> g.physical_memory,
              virtual_memory |-> vm1,
              physical_memory_remaining |-> g.physical_memory_remaining,
              no_of_page_faults |-> g.no_of_page_faults,
              out_of_bounds |-> oob1,
              process |-> p,
              fault |-> FALSE,
              frame_number |-> pte.frame_number]

\* ---------------------------------------------------- memory request
\* Faulty variant: a request equal to the remaining capacity is granted.
RequestGranted_or_equal(request, remaining) == request <= remaining

\* The arbitration test.
RequestGranted(request, remaining) == request < remaining

\* Faulty variant: a grant reserves frame 0 for page 0 in the page table.
memory_request_reserving(p, request, remaining) ==
    IF RequestGranted(request, remaining)
    THEN [process |-> WriteEntry([p EXCEPT !.size_in_memory = request], 0, 0,
                                 [frame_number |-> 0, valid |-> 1]),
          ret |-> request]
    ELSE [process |-> p, ret |-> -1]

\* memory_request(process) with the generated request: the new descriptor and
\* the result.
memory_request(p, request, remaining) ==
    IF RequestGranted(request, remaining)
    THEN [process |-> [p EXCEPT !.size_in_memory = request], ret |-> request]
    ELSE [process |-> p, ret |-> -1]

\* ------------------------------------------------------ deallocation
\* find_process_page_number: the lowest page with a slot owned by the
\* process, -1 when there is none.
find_process_page_number(vm, p) ==
    LET owned == IF p.id = -1
                 THEN {i \in Pages : \E j \in Slots : Slot(vm, i, j) = -1}
                 ELSE {c[1] : c \in {d \in DOMAIN vm : vm[d] = p.id}}
    IN  IF owned = {} THEN -1
        ELSE CHOOSE i \in owned : \A k \in owned : i <= k

\* Faulty variant: frame 0 is returned when the process has no page or the
\* entry is not valid.
find_process_frame_number_zero(vm, p) ==
    LET page_number == find_process_page_number(vm, p)
    IN  IF page_number # -1 /\ EntryOf(p, page_number).valid # 0
        THEN EntryOf(p, page_number).frame_number
        ELSE 0

\* find_process_frame_number: the frame number of that page's entry when the
\* entry is valid, -1 otherwise.
find_process_frame_number(vm, p) ==
    LET page_number == find_process_page_number(vm, p)
    IN  IF page_number # -1 /\ EntryOf(p, page_number).valid # 0
        THEN EntryOf(p, page_number).frame_number
        ELSE -1

\* The number of frames and pages memory_deallocation clears.
dealloc_no_of_frames(p) == p.size \div FRAME_SIZE

\* The clearing loops: every slot of rows first .. first+n-1 becomes -1.  A
\* row index outside the array is outside the map: nothing is written for it.
clear_rows(m, first, n) == ClearRows(m, first .. first + n - 1)

\* memory_deallocation(process) in state g.
memory_deallocation(g, p) ==
    LET frame_number == find_process_frame_number(g.virtual_memory, p)
        no_of_frames == dealloc_no_of_frames(p)
        page_number == find_process_page_number(g.virtual_memory, p)
    IN  IF frame_number # -1
        THEN [physical_memory |-> clear_rows(g.physical_memory, frame_number, no_of_frames),
              virtual_memory |-> clear_rows(g.virtual_memory, page_number, no_of_frames),
              physical_memory_remaining |-> g.physical_memory_remaining + p.size,
              no_of_page_faults |-> g.no_of_page_faults,
              out_of_bounds |-> \/ g.out_of_bounds
                                \/ frame_number + no_of_frames > NO_OF_FRAMES
                                \/ page_number + no_of_frames > NO_OF_PAGES,
              process |-> WriteEntry(p, inner_page_table_no(page_number),
                                     inner_page_table_offset(page_number),
                                     [frame_number |-> -1, valid |-> 0]),
              frame_number |-> frame_number]
        ELSE [physical_memory |-> g.physical_memory,
              virtual_memory |-> g.virtual_memory,
              physical_memory_remaining |-> g.physical_memory_remaining,
              no_of_page_faults |-> g.no_of_page_faults,
              out_of_bounds |-> g.out_of_bounds,
              process |-> p,
              frame_number |-> -1]

\* ------------------------------------------------------------ globals
\* The globals as one record, the form the operations above take and return.
Globals ==
    [physical_memory |-> physical_memory,
     virtual_memory |-> virtual_memory,
     physical_memory_remaining |-> physical_memory_remaining,
     no_of_page_faults |-> no_of_page_faults,
     out_of_bounds |-> out_of_bounds]

\* initialize_physical_memory, initialize_virtual_memory and the globals'
\* initialisers.
InitialGlobals ==
    [physical_memory |-> EmptyMap,
     virtual_memory |-> EmptyMap,
     physical_memory_remaining |-> PHYSICAL_MEMORY_SIZE,
     no_of_page_faults |-> 0,
     out_of_bounds |-> FALSE]

\* ------------------------------------------------- the initial states
\* The state (globals g, descriptor p) of a run in which process 0, of size
\* MAX_PROCESS_SIZE, was created, was granted MAX_PROCESS_SIZE bytes and
\* then translated the n addresses 0, MAX_PROCESS_SIZE, 2*MAX_PROCESS_SIZE,
\* ...: computed with the operations themselves, so every such state is one
\* the program reaches from the state after initialisation.
ResidentStep(before, logical_address) ==
    LET t == hierarchical_translation(before.g, logical_address, before.p)
    IN  [g |-> [physical_memory |-> t.physical_memory,
                virtual_memory |-> t.virtual_memory,
                physical_memory_remaining |-> t.physical_memory_remaining,
                no_of_page_faults |-> t.no_of_page_faults,
                out_of_bounds |-> t.out_of_bounds],
         p |-> t.process]

RECURSIVE Resident(_)
Resident(n) ==
    IF n = 0
    THEN {[g |-> InitialGlobals,
           p |-> memory_request(create_process(0, MAX_PROCESS_SIZE),
                                MAX_PROCESS_SIZE, PHYSICAL_MEMORY_SIZE).process]}
    ELSE {ResidentStep(before, (n - 1) * MAX_PROCESS_SIZE) : before \in Resident(n - 1)}

\* The number of MAX_PROCESS_SIZE allocations that fill the physical memory.
ResidentFull == PHYSICAL_MEMORY_SIZE \div MAX_PROCESS_SIZE

\* main is not running: the operations are called directly.
NoMain == [pc |-> "none", i |-> 0, num_of_processes |-> 0]

NoCall == [op |-> "none", id |-> -1, arg |-> 0, ret |-> 0, first_fit |-> FALSE]

\* After initialize_physical_memory and initialize_virtual_memory, with no
\* process yet.
InitFresh ==
    /\ physical_memory = InitialGlobals.physical_memory
    /\ virtual_memory = InitialGlobals.virtual_memory
    /\ physical_memory_remaining = InitialGlobals.physical_memory_remaining
    /\ no_of_page_faults = InitialGlobals.no_of_page_faults
    /\ out_of_bounds = InitialGlobals.out_of_bounds
    /\ process = [i \in ProcessIds |-> NoProcess]
    /\ master_outer_page_table = <<>>

\* With the resident process 0 having filled the physical memory.
InitResident ==
    \E r \in Resident(ResidentFull) :
        /\ physical_memory = r.g.physical_memory
        /\ virtual_memory = r.g.virtual_memory
        /\ physical_memory_remaining = r.g.physical_memory_remaining
        /\ no_of_page_faults = r.g.no_of_page_faults
        /\ out_of_bounds = r.g.out_of_bounds
        /\ process = [i \in ProcessIds |-> IF i = 0 THEN r.p ELSE NoProcess]
        /\ master_outer_page_table = create_process_table(<<>>, 0, r.p.size)

Init ==
    /\ InitFresh \/ InitResident
    /\ calls = 0
    /\ deallocated = {}
    /\ last = NoCall
    /\ main = NoMain

\* ------------------------------------------------------------ actions
Created(i) == process[i].id # -1
Live(i) == Created(i) /\ i \notin deallocated

SetGlobals(g) ==
    /\ physical_memory' = g.physical_memory
    /\ virtual_memory' = g.virtual_memory
    /\ physical_memory_remaining' = g.physical_memory_remaining
    /\ no_of_page_faults' = g.no_of_page_faults
    /\ out_of_bounds' = g.out_of_bounds

\* One more call is made, within the bound on the calls of a run.
Tick == calls < MaxCalls /\ calls' = calls + 1

\* The caller admits the next process as main's loop does: create_process(i),
\* initialize_process_page_tables(&process) and memory_request(&process),
\* with ids given in sequence.
Admit(i, process_size, request) ==
    /\ Tick
    /\ ~Created(i)
    /\ \A k \in ProcessIds : k < i => Created(k)
    /\ LET r == memory_request(create_process(i, process_size), request,
                               physical_memory_remaining)
       IN  /\ process' = [process EXCEPT ![i] = r.process]
           /\ last' = [op |-> "memory_request", id |-> i, arg |-> request,
                       ret |-> r.ret, first_fit |-> FALSE]
    /\ master_outer_page_table' =
           create_process_table(master_outer_page_table, i, process_size)
    /\ UNCHANGED <<physical_memory, virtual_memory, physical_memory_remaining,
                   no_of_page_faults, out_of_bounds, deallocated, main>>

\* hierarchical_translation(logical_address, &process), which the caller
\* calls only for a process whose request was granted.
Translate(i, logical_address) ==
    /\ Tick
    /\ Live(i)
    /\ process[i].size_in_memory > 0
    /\ LET t == hierarchical_translation(Globals, logical_address, process[i])
       IN  /\ SetGlobals(t)
           /\ process' = [process EXCEPT ![i] = t.process]
           /\ last' = [op |-> "hierarchical_translation", id |-> i,
                       arg |-> logical_address, ret |-> t.frame_number,
                       first_fit |-> t.fault]
    /\ UNCHANGED <<deallocated, master_outer_page_table, main>>

\* memory_deallocation(&process), when the process terminates.
Deallocate(i) ==
    /\ Tick
    /\ Live(i)
    /\ LET d == memory_deallocation(Globals, process[i])
       IN  /\ SetGlobals(d)
           /\ process' = [process EXCEPT ![i] = d.process]
           /\ last' = [op |-> "memory_deallocation", id |-> i, arg |-> 0,
                       ret |-> d.frame_number, first_fit |-> FALSE]
    /\ deallocated' = deallocated \cup {i}
    /\ UNCHANGED <<master_outer_page_table, main>>

Next ==
    \/ \E i \in ProcessIds, s \in ProcessSizes : \E r \in RequestSizes(s) : Admit(i, s, r)
    \/ \E i \in ProcessIds, a \in Addresses : Translate(i, a)
    \/ \E i \in ProcessIds : Deallocate(i)

Spec == Init /\ [][Next]_vars

\* ------------------------------------- the caller creates processes
\* The number of create_process calls of a run, one more than
\* MAX_PROCESS_COUNT.
MaxCreations == 9

InitCreate ==
    /\ InitFresh
    /\ calls = 0
    /\ deallocated = {}
    /\ last = NoCall
    /\ main = NoMain

\* create_process(process_number) with the generated size, the process
\* numbers given in sequence as main's loop does.  Writing the element
\* process_number of master_outer_page_table is out of bounds from
\* MAX_PROCESS_COUNT on.
Create(process_size) ==
    /\ calls < MaxCreations
    /\ calls' = calls + 1
    /\ master_outer_page_table' =
           create_process_table(master_outer_page_table, calls, process_size)
    /\ out_of_bounds' = (out_of_bounds
                         \/ (~CapacityExceeded /\ calls >= MAX_PROCESS_COUNT))
    /\ last' = [op |-> "create_process", id |-> calls, arg |-> process_size,
                ret |-> create_process(calls, process_size).id,
                first_fit |-> FALSE]
    /\ UNCHANGED <<physical_memory, virtual_memory, physical_memory_remaining,
                   no_of_page_faults, process, deallocated, main>>

NextCreate == \E s \in ProcessSizes : Create(s)

SpecCreate == InitCreate /\ [][NextCreate]_vars

\* ------------------------------- addresses at the top of the space
\* Addresses in the last two pages of the virtual address space, which
\* generate_random_logical_address produces like any other.
TopAddresses == {VIRTUAL_MEMORY_SIZE - 2 * PAGE_SIZE + 3, VIRTUAL_MEMORY_SIZE - 1}

InitTop ==
    /\ InitFresh
    /\ calls = 0
    /\ deallocated = {}
    /\ last = NoCall
    /\ main = NoMain

NextTop ==
    \/ \E i \in ProcessIds, s \in ProcessSizes : \E r \in RequestSizes(s) : Admit(i, s, r)
    \/ \E i \in ProcessIds, a \in TopAddresses : Translate(i, a)
    \/ \E i \in ProcessIds : Deallocate(i)

SpecTop == InitTop /\ [][NextTop]_vars

\* ------------------------------ frames exhausted before the counter
\* A process of size LeanSize that is granted LeanRequest bytes takes
\* LeanFrames frames at each page fault and is charged LeanSize bytes, less
\* than the frames hold.
LeanSize == 2 * FRAME_SIZE - 1
LeanRequest == FRAME_SIZE + 1
LeanFrames == CeilDiv(LeanRequest, FRAME_SIZE)

\* The number of such allocations that take every frame.
LeanFull == NO_OF_FRAMES \div LeanFrames

\* The state of a run in which process 0, of size LeanSize, was granted
\* LeanRequest bytes and then translated the first address of n runs of
\* LeanFrames pages, computed with the operations themselves.
RECURSIVE LeanResident(_)
LeanResident(n) ==
    IF n = 0
    THEN {[g |-> InitialGlobals,
           p |-> memory_request(create_process(0, LeanSize), LeanRequest,
                                PHYSICAL_MEMORY_SIZE).process]}
    ELSE {ResidentStep(before, (n - 1) * LeanFrames * PAGE_SIZE) :
              before \in LeanResident(n - 1)}

\* Process 0 holds every frame and the capacity counter is still positive.
InitLean ==
    /\ \E r \in LeanResident(LeanFull) :
        /\ physical_memory = r.g.physical_memory
        /\ virtual_memory = r.g.virtual_memory
        /\ physical_memory_remaining = r.g.physical_memory_remaining
        /\ no_of_page_faults = r.g.no_of_page_faults
        /\ out_of_bounds = r.g.out_of_bounds
        /\ process = [i \in ProcessIds |-> IF i = 0 THEN r.p ELSE NoProcess]
        /\ master_outer_page_table = create_process_table(<<>>, 0, r.p.size)
    /\ calls = 0
    /\ deallocated = {}
    /\ last = NoCall
    /\ main = NoMain

SpecLean == InitLean /\ [][Next]_vars

\* ------------------------------------------------------- the program
\* main: the loop that creates num_of_processes processes, each making one
\* request and, if it is granted, one translation, on main's local copy of
\* the PCB; then the pass that hands master_outer_page_table[i] to
\* memory_deallocation.

\* The values an entry of inner_page_tables can read as in a PCB that came
\* from malloc and was never initialised: create_process sets id, size and
\* size_in_memory of *master_outer_page_table[i] only, and
\* initialize_process_page_tables is called on main's copy.
UninitialisedEntries == [frame_number : {-1, 0, 1}, valid : {0, 1}]

\* The PCB master_outer_page_table[i] as memory_deallocation reads it: the
\* three fields create_process set, and entry e at the one place of
\* inner_page_tables that memory_deallocation reads, the entry of the page
\* find_process_page_number returns.
table_PCB(heap, vm, e) ==
    LET page_number == find_process_page_number(vm, heap)
        pcb == [id |-> heap.id, size |-> heap.size,
                size_in_memory |-> heap.size_in_memory,
                inner_page_tables |-> [c \in {} |-> UnmappedEntry]]
    IN  IF page_number = -1 THEN pcb
        ELSE WriteEntry(pcb, inner_page_table_no(page_number),
                        inner_page_table_offset(page_number), e)

InitMain ==
    /\ InitFresh
    /\ calls = 0
    /\ deallocated = {}
    /\ last = NoCall
    /\ \E n \in 1 .. NumProcesses :
           main = [pc |-> "loop", i |-> 0, num_of_processes |-> n]

\* Faulty variant: hierarchical_translation is called whatever memory_request
\* returned.
TranslationIsCalled_always(memory_request_size) == TRUE

\* The test of main that guards the call of hierarchical_translation.
TranslationIsCalled(memory_request_size) == memory_request_size # -1

\* One pass of the creation loop for process number i, from the globals g
\* and the process table: create_process, initialize_process_page_tables,
\* memory_request and, if the request was granted, hierarchical_translation,
\* all on main's local PCB.  The result holds the globals, the table and the
\* local PCB after the pass.  The store into master_outer_page_table[i] is
\* out of bounds from MAX_PROCESS_COUNT on.
main_pass(g, table, i, process_size, request, logical_address) ==
    LET created == create_process(i, process_size)
        r == memory_request(created, request, g.physical_memory_remaining)
        t == hierarchical_translation(g, logical_address, r.process)
        called == created.id # -1 /\ TranslationIsCalled(r.ret)
        after == IF called
                 THEN [physical_memory |-> t.physical_memory,
                       virtual_memory |-> t.virtual_memory,
                       physical_memory_remaining |-> t.physical_memory_remaining,
                       no_of_page_faults |-> t.no_of_page_faults,
                       out_of_bounds |-> t.out_of_bounds]
                 ELSE g
    IN  [g |-> [after EXCEPT !.out_of_bounds =
                    @ \/ (created.id # -1 /\ i >= MAX_PROCESS_COUNT)],
         table |-> create_process_table(table, i, process_size),
         process |-> IF created.id = -1 THEN created
                     ELSE IF called THEN t.process ELSE r.process,
         exited |-> created.id = -1,
         ret |-> r.ret,
         fault |-> called /\ t.fault]

\* One pass of the creation loop, with the generated size, request and
\* logical address.  process[i] records main's local PCB of pass i.
MainLoop(process_size, request, logical_address) ==
    /\ main.pc = "loop"
    /\ \E after \in {main_pass(Globals, master_outer_page_table, main.i,
                               process_size, request, logical_address)} :
           /\ SetGlobals(after.g)
           /\ process' = [process EXCEPT ![main.i] = after.process]
           /\ master_outer_page_table' = after.table
           /\ main' = IF after.exited THEN [main EXCEPT !.pc = "done"]
                      ELSE IF main.i + 1 < main.num_of_processes
                           THEN [main EXCEPT !.i = main.i + 1]
                           ELSE [main EXCEPT !.i = 0, !.pc = "dealloc"]
           /\ last' = [op |-> "main_loop", id |-> main.i, arg |-> logical_address,
                       ret |-> after.ret, first_fit |-> after.fault]
    /\ UNCHANGED <<calls, deallocated>>

\* One pass of the deallocation loop:
\* memory_deallocation(master_outer_page_table[i]), the uninitialised entry
\* it reads having value e.
MainDeallocate(e) ==
    /\ main.pc = "dealloc"
    /\ LET i == main.i
           d == memory_deallocation(
                    Globals, table_PCB(master_outer_page_table[i], virtual_memory, e))
       IN  /\ SetGlobals(d)
           /\ last' = [op |-> "memory_deallocation", id |-> i, arg |-> 0,
                       ret |-> d.frame_number, first_fit |-> FALSE]
           /\ deallocated' = deallocated \cup {i}
           /\ main' = IF i + 1 < main.num_of_processes
                      THEN [main EXCEPT !.i = i + 1]
                      ELSE [main EXCEPT !.pc = "done"]
    /\ UNCHANGED <<process, master_outer_page_table, calls>>

NextMain ==
    \/ \E s \in ProcessSizes : \E r \in RequestSizes(s) : \E a \in Addresses :
           MainLoop(s, r, a)
    \/ \E e \in UninitialisedEntries : MainDeallocate(e)

SpecMain == InitMain /\ [][NextMain]_vars

\* ------------------------------- the program with many processes
\* main asks for up to 64 processes.  The counter denies a request only
\* after PHYSICAL_MEMORY_SIZE bytes were charged, so a denial needs more
\* passes than MAX_PROCESS_COUNT; the runs below start after PrefixPasses
\* passes of the creation loop, each with a process of MAX_PROCESS_SIZE
\* bytes that requests 1 byte and translates address 0, which leave
\* MAX_PROCESS_SIZE bytes in the counter.
PrefixPasses == PHYSICAL_MEMORY_SIZE \div MAX_PROCESS_SIZE - 1

\* The numbers of the processes of these runs.
ManyIds == 0 .. PrefixPasses + NumProcesses - 1

\* The state of main after k such passes, computed with main_pass itself.
RECURSIVE MainPrefix(_)
MainPrefix(k) ==
    IF k = 0
    THEN {[g |-> InitialGlobals, table |-> <<>>,
           process |-> [i \in ManyIds |-> NoProcess]]}
    ELSE {[g |-> pass[2].g, table |-> pass[2].table,
           process |-> [pass[1].process EXCEPT ![k - 1] = pass[2].process]] :
             pass \in {<<before, main_pass(before.g, before.table, k - 1,
                                           MAX_PROCESS_SIZE, 1, 0)>> :
                          before \in MainPrefix(k - 1)}}

InitMainMany ==
    /\ \E before \in MainPrefix(PrefixPasses) :
           /\ physical_memory = before.g.physical_memory
           /\ virtual_memory = before.g.virtual_memory
           /\ physical_memory_remaining = before.g.physical_memory_remaining
           /\ no_of_page_faults = before.g.no_of_page_faults
           /\ out_of_bounds = before.g.out_of_bounds
           /\ process = before.process
           /\ master_outer_page_table = before.table
    /\ calls = 0
    /\ deallocated = {}
    /\ last = NoCall
    /\ \E n \in 1 .. NumProcesses :
           main = [pc |-> "loop", i |-> PrefixPasses,
                   num_of_processes |-> PrefixPasses + n]

\* The accesses to master_outer_page_table[MAX_PROCESS_COUNT] and above are
\* outside the array: at each of them the run either goes on as if the
\* array were longer or is ended by the system.
MainCrash ==
    /\ main.pc \in {"loop", "dealloc"}
    /\ main.i >= MAX_PROCESS_COUNT
    /\ main' = [main EXCEPT !.pc = "crashed"]
    /\ last' = [NoCall EXCEPT !.op = "crash"]
    /\ UNCHANGED <<physical_memory, virtual_memory, physical_memory_remaining,
                   no_of_page_faults, out_of_bounds, process,
                   master_outer_page_table, calls, deallocated>>

NextMainMany ==
    \/ \E s \in ProcessSizes : \E r \in RequestSizes(s) : \E a \in Addresses :
           MainLoop(s, r, a)
    \/ \E e \in UninitialisedEntries : MainDeallocate(e)
    \/ MainCrash

SpecMainMany == InitMainMany /\ [][NextMainMany]_vars

\* ------------------------------------------- the address arithmetic
\* The page number and the offset of a logical address, as
\* hierarchical_translation and update_page_table compute them.
address_page_number(logical_address) == logical_address \div PAGE_SIZE
address_offset(logical_address) == logical_address % PAGE_SIZE

\* Every logical address generate_random_logical_address can return.
LogicalAddresses == 0 .. VIRTUAL_MEMORY_SIZE - 1

InitAddress ==
    /\ InitFresh
    /\ calls = 0
    /\ deallocated = {}
    /\ main = NoMain
    /\ \E a \in LogicalAddresses : last = [op |-> "address", arg |-> a]

\* The split of the address into page number and offset, and of the page
\* number into the two page-table indexes.
Decode ==
    /\ last.op = "address"
    /\ last' = [op |-> "decoded", arg |-> last.arg,
                page_number |-> address_page_number(last.arg),
                offset |-> address_offset(last.arg),
                inner_page_table_no |->
                    inner_page_table_no(address_page_number(last.arg)),
                inner_page_table_offset |->
                    inner_page_table_offset(address_page_number(last.arg))]
    /\ UNCHANGED <<physical_memory, virtual_memory, physical_memory_remaining,
                   no_of_page_faults, process, calls, deallocated,
                   out_of_bounds, master_outer_page_table, main>>

NextAddress == Decode

SpecAddress == InitAddress /\ [][NextAddress]_vars

\* ------------------------------------------------------------- claims
\* The processes recorded as owners in row i of a memory map.
Owners(m, i) == {m[c] : c \in {d \in DOMAIN m : d[1] = i}}

\* The rows of a memory map in which some slot has an owner.
OwnedRows(m) == {c[1] : c \in DOMAIN m}

\* The rows of a memory map in which process id owns a slot.
RowsOf(m, id) == {c[1] : c \in {d \in DOMAIN m : m[d] = id}}

\* The last call was a page fault of hierarchical_translation (first_fit ran).
LastWasFault == last.op = "hierarchical_translation" /\ last.first_fit

\* The number of frames first_fit was asked for in the last call.
LastFrameCount == CeilDiv(process[last.id].size_in_memory, FRAME_SIZE)

\* C1, first part: every frame has at most one owning process id (the owned
\* frames are as many as the pairs of an owned frame and an owner of it).
C1_OneOwnerPerFrame ==
    Cardinality(OwnedRows(physical_memory)) =
        Cardinality({<<c[1], physical_memory[c]>> : c \in DOMAIN physical_memory})

\* C1, second part: a step that writes an owner into a slot of a frame
\* writes it into a frame that had no owner.
C1_WritesOnlyFreeFrames ==
    \A c \in DOMAIN physical_memory' :
        Slot(physical_memory, c[1], c[2]) # physical_memory'[c]
            => Owners(physical_memory, c[1]) = {}

\* C1: no double ownership.  In every reachable state every physical frame
\* has at most one owning process id, and first_fit never writes a process
\* into a frame that already has an owner.
C1_NoDoubleOwnership ==
    []C1_OneOwnerPerFrame /\ [][C1_WritesOnlyFreeFrames]_vars

\* C1 witness: first_fit has just allocated frames while another process
\* owns frames too.
C1_Witness ==
    /\ LastWasFault /\ last.ret # -1
    /\ \E c, d \in DOMAIN physical_memory : physical_memory[c] # physical_memory[d]

\* The lowest s such that the k frames s .. s+k-1 exist and have no owned
\* slot, -1 when there is no such s.
LowestFreeRun(pm, k) ==
    LET owned == OwnedRows(pm)
        starts == {s \in Frames : \A f \in s .. s + k - 1 : f \in Frames /\ f \notin owned}
    IN  IF starts = {} THEN -1 ELSE CHOOSE s \in starts : \A t \in starts : s <= t

\* C2: first-fit result.  When a translation faults, first_fit returns the
\* lowest start of a run of k = ceil(size_in_memory / FRAME_SIZE) free
\* frames of the map it was called on, and -1 exactly when there is none.
C2_FirstFitResult ==
    [][(last'.op = "hierarchical_translation" /\ last'.first_fit)
        => last'.ret = LowestFreeRun(physical_memory,
                                     CeilDiv(process[last'.id].size_in_memory, FRAME_SIZE))]_vars

\* C2 witness: on an empty map 3 frames were allocated at frame 0, and the
\* allocation of 2 frames that followed returned start frame 3.
C2_Witness ==
    /\ LastWasFault /\ last.ret = 3 /\ LastFrameCount = 2
    /\ \E q \in ProcessIds : q # last.id /\ RowsOf(physical_memory, q) = {0, 1, 2}

\* C10: arbitration boundary.  memory_request grants if and only if the
\* request is less than the remaining capacity (which it leaves as it is):
\* on grant it returns the request, which becomes size_in_memory; on denial
\* it returns -1 and size_in_memory keeps its prior value, 0.
C10_ArbitrationBoundary ==
    last.op = "memory_request" =>
        IF last.arg < physical_memory_remaining
        THEN last.ret = last.arg /\ process[last.id].size_in_memory = last.arg
        ELSE last.ret = -1 /\ process[last.id].size_in_memory = 0

\* C10 witness: a request exactly equal to the remaining capacity was denied.
C10_Witness ==
    /\ last.op = "memory_request"
    /\ last.arg = physical_memory_remaining
    /\ last.ret = -1

\* C3: first-fit success effect.  When first_fit succeeds for process P with
\* k frames and returns s, every byte-slot of the frames s .. s+k-1 is owned
\* by P afterwards, and no slot of a frame outside s .. s+k-1 has changed.
C3_FirstFitMarksWholeRun ==
    [][(last'.op = "hierarchical_translation" /\ last'.first_fit /\ last'.ret # -1)
        => LET k == CeilDiv(process[last'.id].size_in_memory, FRAME_SIZE)
               run == last'.ret .. last'.ret + k - 1
           IN  /\ \A f \in run, b \in Slots :
                      Slot(physical_memory', f, b) = last'.id
               /\ \A f \in Frames \ run, b \in Slots :
                      Slot(physical_memory', f, b) = Slot(physical_memory, f, b)]_vars

\* C4: allocation failure commits no page-table update.  After a page fault
\* whose first_fit returned -1, the faulting entry of the process is still
\* invalid: valid 0 and frame_number -1.
C4_FailedAllocationLeavesEntryInvalid ==
    (LastWasFault /\ last.ret = -1)
        => EntryOf(process[last.id], last.arg \div PAGE_SIZE) = UnmappedEntry

\* Process id holds exactly what one successful translation gave it: one
\* valid entry with a frame number, and the frames and the pages of that
\* allocation, ceil(size_in_memory / FRAME_SIZE) of each.
AllocatedOnce(id) ==
    LET p == process[id]
        k == CeilDiv(p.size_in_memory, FRAME_SIZE)
    IN  \E c \in DOMAIN p.inner_page_tables :
            LET e == p.inner_page_tables[c]
                page_number == c[1] * NO_OF_PAGE_TABLE_ENTRIES_IN_PAGE + c[2]
            IN  /\ DOMAIN p.inner_page_tables = {c}
                /\ e.valid # 0 /\ e.frame_number # -1
                /\ RowsOf(physical_memory, id) = e.frame_number .. e.frame_number + k - 1
                /\ RowsOf(virtual_memory, id) = page_number .. page_number + k - 1

\* C5: deallocation releases everything the process owns.  After
\* memory_deallocation of a process that one successful translation gave
\* ceil(size_in_memory / FRAME_SIZE) frames, the process owns no frame and no
\* virtual page, and no entry of its page table is valid or has a frame.
C5_DeallocationReleasesAll ==
    [][(last'.op = "memory_deallocation" /\ AllocatedOnce(last'.id))
        => /\ RowsOf(physical_memory', last'.id) = {}
           /\ RowsOf(virtual_memory', last'.id) = {}
           /\ DOMAIN process'[last'.id].inner_page_tables = {}]_vars

\* Every slot of map m that a process other than id owns has the same owner
\* in map n.
OthersKept(m, n, id) ==
    \A c \in DOMAIN m : m[c] # id => Slot(n, c[1], c[2]) = m[c]

\* C6: deallocation touches only the deallocated process.
\* memory_deallocation(P) leaves the owner of every frame slot and of every
\* virtual page slot that another process owns as it was.
C6_DeallocationTouchesOnlyItsProcess ==
    [][last'.op = "memory_deallocation"
        => /\ OthersKept(physical_memory, physical_memory', last'.id)
           /\ OthersKept(virtual_memory, virtual_memory', last'.id)]_vars

\* C7: frame conservation.  The deallocation of a process that holds frames
\* adds back to physical_memory_remaining exactly what its allocation
\* subtracted, the size of the process.
C7_FrameConservation ==
    [][(last'.op = "memory_deallocation" /\ RowsOf(physical_memory, last'.id) # {})
        => physical_memory_remaining' =
               physical_memory_remaining + first_fit_charge(process[last'.id])]_vars

\* C8: page-table entry invariant.  For every process and every entry of its
\* page table, valid implies that frame_number is a frame index and that
\* this frame is owned by that process in the Physical Memory Map.
C8_ValidEntryMapsOwnFrame ==
    \A i \in ProcessIds : \A c \in DOMAIN process[i].inner_page_tables :
        LET e == process[i].inner_page_tables[c]
        IN  e.valid # 0 => /\ e.frame_number \in Frames
                           /\ Owners(physical_memory, e.frame_number) = {process[i].id}

\* C9, first part: a translation for an address whose entry is already
\* valid does not invoke first_fit and changes neither the Physical Memory
\* Map, the capacity counter, the page table nor the fault counter.
C9_ValidEntryNeverFaults ==
    (/\ last'.op = "hierarchical_translation"
     /\ EntryOf(process[last'.id], last'.arg \div PAGE_SIZE).valid # 0)
        => /\ ~last'.first_fit
           /\ physical_memory' = physical_memory
           /\ physical_memory_remaining' = physical_memory_remaining
           /\ process'[last'.id].inner_page_tables = process[last'.id].inner_page_tables
           /\ no_of_page_faults' = no_of_page_faults

\* C9, second part: an entry goes from valid to invalid only in the
\* memory_deallocation of its process, so that it goes from invalid to valid
\* at most once without a deallocation in between.
C9_InvalidatedOnlyByDeallocation ==
    \A i \in ProcessIds : \A c \in DOMAIN process[i].inner_page_tables :
        (/\ process[i].inner_page_tables[c].valid # 0
         /\ Entry(process'[i], c[1], c[2]).valid = 0)
            => last'.op = "memory_deallocation" /\ last'.id = i

\* C9: fault-once.
C9_FaultOnce ==
    [][C9_ValidEntryNeverFaults /\ C9_InvalidatedOnlyByDeallocation]_vars

\* C11: a grant reserves nothing.  memory_request, granting or denying,
\* leaves both memory maps, the capacity counter, the fault counter and the
\* page table of the process as they were (the page table is the one
\* initialize_process_page_tables wrote); a slot of the Physical Memory Map
\* gets an owner only in a translation that faults.
C11_GrantReservesNothing ==
    [][/\ last'.op = "memory_request"
            => /\ physical_memory' = physical_memory
               /\ virtual_memory' = virtual_memory
               /\ physical_memory_remaining' = physical_memory_remaining
               /\ no_of_page_faults' = no_of_page_faults
               /\ process'[last'.id].inner_page_tables =
                      create_process(last'.id, process'[last'.id].size).inner_page_tables
       /\ (\E c \in DOMAIN physical_memory' :
               Slot(physical_memory, c[1], c[2]) # physical_memory'[c])
            => last'.op = "hierarchical_translation" /\ last'.first_fit]_vars

\* C11 witness: a request was granted while another process holds frames,
\* and the granted process has no mapping.
C11_Witness ==
    /\ last.op = "memory_request"
    /\ last.ret = last.arg
    /\ DOMAIN physical_memory # {}
    /\ DOMAIN process[last.id].inner_page_tables = {}

\* C12: admission bound.  When MAX_PROCESS_COUNT processes exist,
\* create_process returns a process with id -1 and creates none: the number
\* of processes in the process table and the highest index written into it
\* never exceed the maximum, however many creations the caller requests.
C12_AdmissionBound ==
    /\ Cardinality(DOMAIN master_outer_page_table) <= MAX_PROCESS_COUNT
    /\ \A n \in DOMAIN master_outer_page_table : n < MAX_PROCESS_COUNT
    /\ (last.op = "create_process" /\ last.id >= MAX_PROCESS_COUNT) => last.ret = -1

\* C13: translation stays inside the fixed bounds.  hierarchical_translation
\* for an address in [0, VIRTUAL_MEMORY_SIZE) and a granted size in [1, 64]
\* uses the page table only at [outer][inner] with outer below
\* OUTER_PAGE_TABLE_SIZE and inner below NO_OF_PAGE_TABLE_ENTRIES_IN_PAGE,
\* and indexes the Virtual Memory Map only at pages below NO_OF_PAGES.
C13_TranslationInBounds ==
    [][(last'.op = "hierarchical_translation" /\ ~out_of_bounds)
        => /\ ~out_of_bounds'
           /\ \A c \in DOMAIN process'[last'.id].inner_page_tables :
                  /\ c[1] \in 0 .. OUTER_PAGE_TABLE_SIZE - 1
                  /\ c[2] \in 0 .. NO_OF_PAGE_TABLE_ENTRIES_IN_PAGE - 1
           /\ \A c \in DOMAIN virtual_memory' : c[1] \in Pages]_vars

\* Process id never had a successful allocation: no entry of its page table
\* has a frame number, and it owns no frame.
NeverAllocated(id) ==
    /\ \A c \in DOMAIN process[id].inner_page_tables :
           process[id].inner_page_tables[c].frame_number = -1
    /\ RowsOf(physical_memory, id) = {}

\* C14: deallocation of a process that owns no frame is a no-op.  If the
\* process never had a successful allocation (never translated, request
\* denied, or first_fit failed), memory_deallocation leaves both memory
\* maps, the capacity counter and the page table of the process as they
\* were, and indexes no array out of bounds.
C14_DeallocationOfNothing ==
    [][(last'.op = "memory_deallocation" /\ NeverAllocated(last'.id))
        => /\ physical_memory' = physical_memory
           /\ virtual_memory' = virtual_memory
           /\ physical_memory_remaining' = physical_memory_remaining
           /\ process'[last'.id].inner_page_tables =
                  process[last'.id].inner_page_tables
           /\ out_of_bounds' = out_of_bounds]_vars

\* C14 witness: a process whose only page fault failed in first_fit (its
\* entry has no frame, it is marked in the Virtual Memory Map) has been
\* deallocated.
C14_Witness ==
    /\ last.op = "memory_deallocation"
    /\ last.ret = -1
    /\ DOMAIN process[last.id].inner_page_tables # {}
    /\ \A c \in DOMAIN process[last.id].inner_page_tables :
           process[last.id].inner_page_tables[c].frame_number = -1
    /\ RowsOf(virtual_memory, last.id) # {}
    /\ RowsOf(physical_memory, last.id) = {}

\* Every page of the Virtual Memory Map has at most one owner id.
C15_OneOwnerPerPage ==
    Cardinality(OwnedRows(virtual_memory)) =
        Cardinality({<<c[1], virtual_memory[c]>> : c \in DOMAIN virtual_memory})

\* A slot of the Virtual Memory Map gets a new owner only in a page that no
\* other process owns.
C15_TakesOnlyFreePages ==
    \A c \in DOMAIN virtual_memory' :
        Slot(virtual_memory, c[1], c[2]) # virtual_memory'[c]
            => Owners(virtual_memory, c[1]) \subseteq {virtual_memory'[c]}

\* C15: virtual pages have a single owner.  In every reachable state each
\* page of the Virtual Memory Map has at most one owning process id, and a
\* page fault of one process never takes over or overwrites a page owned by
\* another process.
C15_SingleOwnerPages ==
    []C15_OneOwnerPerPage /\ [][C15_TakesOnlyFreePages]_vars

\* C16: end-to-end reversal in the program's run.  When main has created
\* num_of_processes <= MAX_PROCESS_COUNT processes and has deallocated every
\* one of them through master_outer_page_table, every frame and every
\* virtual page is unowned and the capacity counter equals
\* PHYSICAL_MEMORY_SIZE; the descriptor handed to memory_deallocation
\* carries the granted size that main's PCB of the process has.
C16_EndToEndReversal ==
    main.pc = "done"
        => /\ physical_memory = EmptyMap
           /\ virtual_memory = EmptyMap
           /\ physical_memory_remaining = PHYSICAL_MEMORY_SIZE
           /\ \A i \in 0 .. main.num_of_processes - 1 :
                  master_outer_page_table[i].size_in_memory =
                      process[i].size_in_memory

\* C17: allocation failure commits no partial state in the memory maps.
\* When the first_fit call of a page fault fails, the Virtual Memory Map,
\* the Physical Memory Map and the capacity counter are the same after
\* hierarchical_translation as before it.
C17_FailedAllocationKeepsMaps ==
    [][(last'.op = "hierarchical_translation" /\ last'.first_fit /\ last'.ret = -1)
        => /\ virtual_memory' = virtual_memory
           /\ physical_memory' = physical_memory
           /\ physical_memory_remaining' = physical_memory_remaining]_vars

\* The place in the page table of the entry of logical address a.
EntryCell(a) ==
    <<inner_page_table_no(a \div PAGE_SIZE), inner_page_table_offset(a \div PAGE_SIZE)>>

\* C18, first part: an entry goes from invalid to valid only in
\* update_page_table, that is in a translation that faults, and it is the
\* entry of the translated address of the translating process.
C18_ValidatedOnlyByUpdate ==
    \A i \in ProcessIds : \A c \in DOMAIN process'[i].inner_page_tables :
        (/\ process'[i].inner_page_tables[c].valid # 0
         /\ Entry(process[i], c[1], c[2]).valid = 0)
            => /\ last'.op = "hierarchical_translation" /\ last'.first_fit
               /\ last'.id = i
               /\ c = EntryCell(last'.arg)

\* C18, second part: update_page_table(process, address, start_frame) sets
\* frame_number = start_frame and valid on the entry of the address, and
\* leaves every other entry of the process, the page table of every other
\* process, both memory maps and the capacity counter as first_fit and the
\* page marking left them.
C18_UpdateTouchesOneEntry ==
    (last'.op = "hierarchical_translation" /\ last'.first_fit)
        => LET id == last'.id
               cell == EntryCell(last'.arg)
               before == process[id].inner_page_tables
               after == process'[id].inner_page_tables
               ff == first_fit(physical_memory, physical_memory_remaining,
                               process[id], last'.arg % PAGE_SIZE)
           IN  /\ Entry(process'[id], cell[1], cell[2]) =
                      [frame_number |-> last'.ret, valid |-> 1]
               /\ \A c \in (DOMAIN before \cup DOMAIN after) \ {cell} :
                      Entry(process'[id], c[1], c[2]) = Entry(process[id], c[1], c[2])
               /\ \A j \in ProcessIds \ {id} : process'[j] = process[j]
               /\ physical_memory' = ff.physical_memory
               /\ physical_memory_remaining' = ff.physical_memory_remaining
               /\ \A c \in DOMAIN virtual_memory' :
                      virtual_memory'[c] # Slot(virtual_memory, c[1], c[2])
                          => c[2] = last'.arg % PAGE_SIZE /\ virtual_memory'[c] = id

\* C18: Update Mapping is the only invalid-to-valid transition and touches
\* one entry.
C18_UpdateMapping ==
    [][C18_ValidatedOnlyByUpdate /\ C18_UpdateTouchesOneEntry]_vars

\* C18 witness: a page fault has just mapped a second entry of a process
\* while another process has a mapping too.
C18_Witness ==
    /\ LastWasFault
    /\ Cardinality(DOMAIN process[last.id].inner_page_tables) = 2
    /\ \E j \in ProcessIds \ {last.id} : DOMAIN process[j].inner_page_tables # {}

\* C19: two-level addressing is a bijection.  For every logical address a
\* in [0, 4096) the page number a / 16, the offset a % 16, the outer index
\* page_number / 4 and the inner index page_number % 4 satisfy
\* 0 <= outer < 64, 0 <= inner < 4 and ((outer * 4 + inner) * 16 + offset) = a,
\* and no other page number has the same pair of indexes.
C19_TwoLevelBijection ==
    last.op = "decoded"
        => /\ last.page_number \in Pages
           /\ last.offset \in 0 .. PAGE_SIZE - 1
           /\ last.inner_page_table_no \in 0 .. OUTER_PAGE_TABLE_SIZE - 1
           /\ last.inner_page_table_offset \in 0 .. NO_OF_PAGE_TABLE_ENTRIES_IN_PAGE - 1
           /\ (last.inner_page_table_no * NO_OF_PAGE_TABLE_ENTRIES_IN_PAGE
                   + last.inner_page_table_offset) * PAGE_SIZE + last.offset = last.arg
           /\ \A q \in Pages :
                  (/\ inner_page_table_no(q) = last.inner_page_table_no
                   /\ inner_page_table_offset(q) = last.inner_page_table_offset)
                      => q = last.page_number

\* C19 witness: the last address of the space has been split, into the
\* last entry of the last inner page table.
C19_Witness ==
    /\ last.op = "decoded"
    /\ last.arg = VIRTUAL_MEMORY_SIZE - 1
    /\ last.page_number = NO_OF_PAGES - 1
    /\ last.inner_page_table_no = OUTER_PAGE_TABLE_SIZE - 1
    /\ last.inner_page_table_offset = NO_OF_PAGE_TABLE_ENTRIES_IN_PAGE - 1

\* C20: arbitration success does not imply allocation success.  When
\* memory_request has granted a request (it returned the size, which is
\* below the capacity counter) and the translation of that process follows,
\* the page fault's first_fit returns -1 exactly when no run of
\* ceil(request / FRAME_SIZE) free frames exists, whatever the counter says:
\* the grant returns a size, the allocator the sentinel -1.
C20_GrantThenAllocation ==
    [][(/\ last.op = "memory_request" /\ last.ret # -1
        /\ last'.op = "hierarchical_translation" /\ last'.id = last.id)
        => /\ last.ret = last.arg
           /\ last.ret < physical_memory_remaining
           /\ last'.first_fit
           /\ (last'.ret = -1) <=>
                  (LowestFreeRun(physical_memory, CeilDiv(last.ret, FRAME_SIZE)) = -1)]_vars

\* C20 witness: the first translation of a process whose request was
\* granted has failed in first_fit, although its granted size is below the
\* capacity counter.
C20_Witness ==
    /\ LastWasFault
    /\ last.ret = -1
    /\ process[last.id].size_in_memory >= 1
    /\ process[last.id].size_in_memory < physical_memory_remaining
    /\ Cardinality(DOMAIN process[last.id].inner_page_tables) = 1
    /\ RowsOf(physical_memory, last.id) = {}

\* C22: the capacity counter stays in range.  In every state reachable by
\* granted requests, first_fit allocations and deallocations,
\* 0 <= physical_memory_remaining <= PHYSICAL_MEMORY_SIZE.
C22_CounterInRange ==
    /\ 0 <= physical_memory_remaining
    /\ physical_memory_remaining <= PHYSICAL_MEMORY_SIZE

\* C23: deallocation stays inside the maps.  Whenever the clearing loops of
\* memory_deallocation run for a process, they clear frame indexes in
\* [0, NO_OF_FRAMES) and page indexes in [0, NO_OF_PAGES) only:
\* start frame + size / FRAME_SIZE <= NO_OF_FRAMES and
\* start page + size / FRAME_SIZE <= NO_OF_PAGES.
C23_DeallocationInBounds ==
    [][(last'.op = "memory_deallocation" /\ last'.ret # -1)
        => LET p == process[last'.id]
           IN  /\ last'.ret >= 0
               /\ last'.ret + dealloc_no_of_frames(p) <= NO_OF_FRAMES
               /\ find_process_page_number(virtual_memory, p) >= 0
               /\ find_process_page_number(virtual_memory, p)
                      + dealloc_no_of_frames(p) <= NO_OF_PAGES
               /\ out_of_bounds' = out_of_bounds]_vars

\* A process of main's run that was created and whose request was denied.
Denied(id) == process[id].id # -1 /\ process[id].size_in_memory = 0

\* C21, first part: at every point of main's run a denied process owns no
\* frame and no virtual page and all its page-table entries are invalid.
C21_DeniedOwnsNothing ==
    \A id \in DOMAIN process :
        Denied(id) =>
            /\ RowsOf(physical_memory, id) = {}
            /\ RowsOf(virtual_memory, id) = {}
            /\ \A c \in DOMAIN process[id].inner_page_tables :
                   process[id].inner_page_tables[c].valid = 0

\* C21, second part: the pass of the creation loop in which memory_request
\* returns -1 does not call hierarchical_translation (no map, counter or
\* fault count changes), leaves the process with granted size 0, and main
\* goes on to the next pass, or to the deallocation pass after the last one.
C21_DenialStep ==
    (last'.op = "main_loop" /\ last'.ret = -1)
        => /\ process'[last'.id].id = last'.id
           /\ process'[last'.id].size_in_memory = 0
           /\ ~last'.first_fit
           /\ physical_memory' = physical_memory
           /\ virtual_memory' = virtual_memory
           /\ physical_memory_remaining' = physical_memory_remaining
           /\ no_of_page_faults' = no_of_page_faults
           /\ main' = IF main.i + 1 < main.num_of_processes
                      THEN [main EXCEPT !.i = main.i + 1]
                      ELSE [main EXCEPT !.i = 0, !.pc = "dealloc"]

\* C21, third part: a denied process stays denied, and the pass after a
\* denial serves its process like any other: it is created, and a granted
\* request is followed by the translation.
C21_LaterPasses ==
    /\ \A id \in DOMAIN process : Denied(id) => Denied(id)'
    /\ (last'.op = "main_loop" /\ last'.ret # -1)
           => /\ process'[last'.id].size_in_memory = last'.ret
              /\ RowsOf(virtual_memory', last'.id) # {}

====
